---- MODULE Spec2Model ----
(***************************************************************************)
(* Model of the KiAssist project selector (the Vue component whose script  *)
(* starts at src/unnamed/part_013:761): the refresh cycle                  *)
(* refreshProjectsList, the periodic timer, browseForProject, the          *)
(* selection, and the pure view functions isProjectOpen and                *)
(* visibleRecentProjects.  The Python backend behind window.pywebview.api  *)
(* is not part of the sources; its Recency Store is modelled from the      *)
(* design document (spec.md, section 4.3), and so is its Endpoint Prober   *)
(* (section 4.2).  The older selector KiCadInstanceSelector.vue            *)
(* (detectInstances) and waitForAPI have specifications of their own.      *)
(*                                                                         *)
(* A path is a sequence of characters, so that String.toLowerCase and the  *)
(* separator handling are computed and not assumed.                        *)
(***************************************************************************)
EXTENDS Integers, Sequences, FiniteSets, TLC

VARIABLES
    stage,            \* "setup" | "mounted" | "unmounted" (component lifecycle)
    api,              \* window.pywebview?.api is present
    openProjects,     \* ref<KiCadInstance[]>
    recentProjects,   \* ref<RecentProject[]>
    selectedProject,  \* ref<KiCadInstance | RecentProject | null>
    loading,          \* ref(false)
    error,            \* ref<string>('')
    showAllRecent,    \* ref(false)
    refreshTimer,     \* number | null  (0 models null)
    calls,            \* the invocations of refreshProjectsList, in start order
    nextId,           \* number of invocations of refreshProjectsList so far
    browse,           \* the invocation of browseForProject
    store,            \* backend: the Recency Store, most recent first
    pendingAdds,      \* add_recent_project calls issued and not yet served
    lastDone,         \* history: result of the last cycle that completed with success
    openGen,          \* history: the invocation whose result openProjects holds
    recentGen,        \* history: the invocation whose result recentProjects holds
    rendered,         \* the rows the template rendered last (view specification)
    clock,            \* store specification: time, one unit per add or remove call
    stamps,           \* store specification: last_opened of each normalised path
    lastOp,           \* history: the last add or remove call and its result
    instances,        \* KiCadInstanceSelector.vue: ref<KiCadInstance[]>
    selectedInstance, \* KiCadInstanceSelector.vue: ref<KiCadInstance | null>
    detect,           \* KiCadInstanceSelector.vue: the invocation of detectInstances
    probes,           \* backend: the probe of each candidate endpoint
    probedOpen,       \* backend: the open list of the cycle, in completion order
    waits,            \* the invocations of waitForAPI, one per caller
    issueOrder,       \* history: the pending get_projects_list calls, in call order
    overtaken,        \* history: pending calls made before the call of an applied result
    activeTimers,     \* window: the handles of the interval timers that are set
    handles,          \* window: the number of setInterval calls so far
    visible,          \* RequirementsWizard: props.visible
    currentStep,      \* RequirementsWizard: ref(0)
    isLoading,        \* RequirementsWizard: ref(false)
    wizardError,      \* RequirementsWizard: its own error ref
    answers,          \* RequirementsWizard: the ids of the questions answered
    questions,        \* RequirementsWizard: the questions held, with their origin
    synthesized,      \* RequirementsWizard: synthesizedRequirements / synthesizedTodo
    nextCall,         \* RequirementsWizard: the invocation of nextStep
    loadPending,      \* RequirementsWizard: get_wizard_questions calls of the watcher pending
    opens,            \* history: how often the wizard has become visible
    messages,         \* ChatBox: ref([]); call is history, the sendMessage call of a message
    inputMessage,     \* ChatBox: ref('')
    hasApiKey,        \* ChatBox: ref(false)
    showApiKeyPrompt, \* ChatBox: ref(false)
    chatIsLoading,    \* ChatBox: its isLoading ref
    apiKeyInput,      \* ChatBox: ref(''), by the kind of key typed
    apiKeyError,      \* ChatBox: ref('')
    apiKeyWarning,    \* ChatBox: ref('')
    keyCheck,         \* ChatBox: waitForPywebviewAndCheckApiKey of onMounted
    sendCall,         \* ChatBox: the send_message call; id counts the calls made
    savePending       \* ChatBox: set_api_key calls pending

\* the variables of the project selector and of its backend
selectorVars == <<stage, api, openProjects, recentProjects, selectedProject,
                  loading, error, showAllRecent, refreshTimer, calls, nextId,
                  browse, store, pendingAdds, lastDone, openGen, recentGen>>

\* the variables the handlers of the project selector do not touch
storeVars == <<clock, stamps, lastOp>>
detectVars == <<instances, selectedInstance, detect>>
probeVars == <<probes, probedOpen>>
timerVars == <<activeTimers, handles>>
wizardVars == <<visible, currentStep, isLoading, wizardError, answers, questions,
                synthesized, nextCall, loadPending, opens>>

chatVars == <<messages, inputMessage, hasApiKey, showApiKeyPrompt,
              chatIsLoading, apiKeyInput, apiKeyError, apiKeyWarning, keyCheck,
              sendCall, savePending>>

\* the variables no handler of the project selector touches
quiet == <<rendered, storeVars, detectVars, probeVars, waits, wizardVars,
           chatVars>>

issueVars == <<issueOrder, overtaken>>

others == <<quiet, issueVars, timerVars>>

vars == <<selectorVars, others>>

----------------------------------------------------------------------------
(* Bounds of the model *)

\* refreshProjectsList invocations in one behaviour
MaxCycles == 3
\* refreshProjectsList invocations in flight at the same time
MaxInFlight == 2
\* the maxAttempts argument of waitForAPI (default 20), scaled down
MaxAttempts == 2
\* add_recent_project / remove_recent_project calls in one behaviour of the store
MaxStoreOps == 4
\* the probe timeout (default 2000 ms), in time units
ProbeTimeout == 2
\* setInterval calls in one behaviour of the timer functions
MaxTimers == 3
\* how often the requirements wizard is opened in one behaviour
MaxOpens == 2
\* the length of the chat box's message list in one behaviour
MaxMessages == 4
\* set_api_key calls pending at the same time
MaxSaves == 2

(* Program constants *)
MAX_VISIBLE_RECENT == 5

Null == [type |-> "null"]

----------------------------------------------------------------------------
(* Strings *)

Range(s) == {s[i] : i \in DOMAIN s}

Min(a, b) == IF a < b THEN a ELSE b

\* one character of String.prototype.toLowerCase
LowerChar(c) ==
    CASE c = "A" -> "a"
      [] c = "B" -> "b"
      [] c = "C" -> "c"
      [] OTHER -> c

ToLowerCase(s) == [i \in DOMAIN s |-> LowerChar(s[i])]

\* the store's separator normalisation: '\' becomes '/'
SepChar(c) == IF c = "\\" THEN "/" ELSE c

\* Recency Store normalisation: case-fold and separator-normalise
Normalize(s) == [i \in DOMAIN s |-> SepChar(LowerChar(s[i]))]

\* the paths of the model; NoPath is the empty string
NoPath == <<>>
\* "/a", "/A", "\A" and "\a": one project in four spellings
PathA  == <<"/", "a">>
PathAU == <<"/", "A">>
PathWinAU == <<"\\", "A">>
PathWinA == <<"\\", "a">>
\* "/b" ... "/f": other projects
PathB  == <<"/", "b">>
PathC  == <<"/", "c">>
PathD  == <<"/", "d">>
PathE  == <<"/", "e">>
PathF  == <<"/", "f">>
\* a relative path "a": not a project path
PathBad == <<"a">>

----------------------------------------------------------------------------
(* Backend data (window.pywebview.api) *)

\* KiCadInstance: socket_path and project_path; oid is the identity of the
\* JavaScript object (the invocation whose response created it)
Instance(sock, path) == [socket_path |-> sock, project_path |-> path]

\* the live-instance lists the prober can return (get_projects_list probes
\* when it is called)
LiveOptions ==
    { <<>>,
      <<Instance("s1", PathAU)>> }

\* the Recency Store at process start (it survives restarts)
StoreOptions == { <<>>, <<PathA>> }

\* the paths the file picker can return: "/A", "/a" and "a"
PickPaths == { PathAU, PathA, PathBad }

SeqWithout(s, x) == SelectSeq(s, LAMBDA y : y # x)

\* add(path) appending the path as it is given
StoreAddAppend(st, p) == st \o <<p>>

\* Recency Store add(path): normalise, then move to head or insert at head
StoreAdd(st, p) == <<Normalize(p)>> \o SeqWithout(st, Normalize(p))

\* a path the store refuses: empty or not absolute
Malformed(p) == p = NoPath \/ Head(p) \notin {"/", "\\"}

\* add_recent_project raising on a malformed path
AddRecentProjectRaises(st, p) ==
    IF Malformed(p)
    THEN [success |-> FALSE, raised |-> TRUE,  store |-> st]
    ELSE [success |-> TRUE,  raised |-> FALSE, store |-> StoreAdd(st, p)]

\* add_recent_project(path): a failure result for a malformed path, never an
\* exception; else the store adds the path
AddRecentProject(st, p) ==
    IF Malformed(p)
    THEN [success |-> FALSE, raised |-> FALSE, store |-> st]
    ELSE [success |-> TRUE,  raised |-> FALSE, store |-> StoreAdd(st, p)]

\* remove_recent_project(path): normalised match, no-op when absent
RemoveRecentProject(st, p) ==
    IF Malformed(p)
    THEN [success |-> FALSE, raised |-> FALSE, store |-> st]
    ELSE [success |-> TRUE,  raised |-> FALSE,
          store |-> SeqWithout(st, Normalize(p))]

\* get_projects_list(): the response to invocation id, read from the backend
ProjectsListResult(id, L, R) ==
    [ open_projects   |-> [i \in DOMAIN L |->
                             [socket_path |-> L[i].socket_path,
                              project_path |-> L[i].project_path,
                              oid |-> id]],
      recent_projects |-> [i \in DOMAIN R |-> [path |-> R[i], oid |-> id]] ]

NoResult == [open_projects |-> <<>>, recent_projects |-> <<>>]

----------------------------------------------------------------------------
(* View functions of the component *)

IsPrefix(a, b) == Len(a) <= Len(b) /\ SubSeq(b, 1, Len(a)) = a

\* isProjectOpen comparing the paths as they are, without toLowerCase
IsProjectOpenExact(project) ==
    \E i \in DOMAIN openProjects : openProjects[i].project_path = project.path

\* isProjectOpen matching with startsWith instead of ===
IsProjectOpenPrefix(project) ==
    LET normalizedPath == ToLowerCase(project.path)
    IN  \E i \in DOMAIN openProjects :
            IsPrefix(ToLowerCase(openProjects[i].project_path), normalizedPath)

\* isProjectOpen(project): toLowerCase on both sides, Array.some over openProjects
IsProjectOpen(project) ==
    LET normalizedPath == ToLowerCase(project.path)
    IN  \E i \in DOMAIN openProjects :
            ToLowerCase(openProjects[i].project_path) = normalizedPath

\* visibleRecentProjects listing the open projects first
VisibleRecentOpenFirst ==
    LET sorted == SelectSeq(recentProjects, LAMBDA r : IsProjectOpen(r))
                  \o SelectSeq(recentProjects, LAMBDA r : ~IsProjectOpen(r))
    IN  IF showAllRecent
        THEN sorted
        ELSE SubSeq(sorted, 1, Min(MAX_VISIBLE_RECENT, Len(sorted)))

\* computed visibleRecentProjects: the whole list, or slice(0, MAX_VISIBLE_RECENT)
VisibleRecentProjects ==
    IF showAllRecent
    THEN recentProjects
    ELSE SubSeq(recentProjects, 1, Min(MAX_VISIBLE_RECENT, Len(recentProjects)))

\* computed hasMoreRecentProjects
HasMoreRecentProjects == Len(recentProjects) > MAX_VISIBLE_RECENT

\* computed selectedProjectInfo.isOpen (FALSE stands for the null info too)
SelectedIsOpen ==
    IF selectedProject = Null THEN FALSE
    ELSE IF "socket_path" \in DOMAIN selectedProject THEN TRUE
    ELSE IsProjectOpen(selectedProject)

\* the rows of the "Open in KiCAD" section: v-for over openProjects
RenderedOpen == openProjects

\* the rows of the "Recent Projects" section with their status icon
RenderedRecent ==
    [i \in DOMAIN VisibleRecentProjects |->
        [path |-> VisibleRecentProjects[i].path,
         open |-> IsProjectOpen(VisibleRecentProjects[i])]]

\* v-if="error" hides the lists and the browse button; after unmount no DOM
ListsVisible == stage = "mounted" /\ error = ""

\* what the template reads to render the two lists
ViewInputs == <<openProjects, recentProjects, showAllRecent>>

\* nothing rendered yet
NotRendered == [from |-> <<>>, open |-> <<>>, recent |-> <<>>]

----------------------------------------------------------------------------
(* refreshProjectsList *)

IdleCall == [pc |-> "idle", i |-> 0, res |-> NoResult]
DoneCall == [pc |-> "done", i |-> 0, res |-> NoResult]

InFlight(id) == calls[id].pc \in {"wait", "issued"}

CallIds == 1..MaxCycles

InFlightCount == Cardinality({id \in CallIds : InFlight(id)})

\* the bounds on starting one more invocation
CanStart == nextId < MaxCycles /\ InFlightCount < MaxInFlight

\* the continuation of browseForProject after "await refreshProjectsList()" is a
\* microtask: it runs before any other handler
BrowseResumes ==
    /\ browse.pc = "refreshing"
    /\ calls[browse.call].pc = "done"

\* lines 798-810: the synchronous start, the first waitForAPI check and, when
\* the bridge is present, the get_projects_list call (read by the backend)
StartCycle(id) ==
    /\ loading' = TRUE
    /\ error' = ""
    /\ nextId' = id
    /\ IF api
       THEN \E L \in LiveOptions :
              calls' = [calls EXCEPT ![id] =
                          [pc |-> "issued", i |-> 0,
                           res |-> ProjectsListResult(id, L, store)]]
       ELSE calls' = [calls EXCEPT ![id] =
                        [pc |-> "wait", i |-> 1, res |-> NoResult]]
    /\ issueOrder' = IF api THEN Append(issueOrder, id) ELSE issueOrder
    /\ UNCHANGED overtaken

\* auto-select the only open project whatever is selected
AutoSelectAlways(result, selected) ==
    IF Len(result.open_projects) = 1
    THEN result.open_projects[1]
    ELSE selected

\* the pending calls that were made before the call of invocation id, whose
\* result is applied now
Overtaken(id) ==
    (overtaken \cup { issueOrder[k] : k \in { j \in DOMAIN issueOrder :
                          \E m \in DOMAIN issueOrder :
                             issueOrder[m] = id /\ j < m } }) \ {id}

\* lines 816-819: auto-select the only open project when nothing is selected
AutoSelect(result, selected) ==
    IF Len(result.open_projects) = 1 /\ selected = Null
    THEN result.open_projects[1]
    ELSE selected

\* the success branch assigning openProjects only
ApplySuccessOpenOnly(id, result) ==
    /\ openProjects' = result.open_projects
    /\ selectedProject' = AutoSelect(result, selectedProject)
    /\ openGen' = id
    /\ UNCHANGED <<recentProjects, recentGen, error, pendingAdds>>

\* the success branch auto-selecting through selectProject(project, false),
\* which records the project in the Recency Store
ApplySuccessAddsRecent(id, result) ==
    /\ openProjects' = result.open_projects
    /\ recentProjects' = result.recent_projects
    /\ selectedProject' = AutoSelect(result, selectedProject)
    /\ pendingAdds' =
          IF Len(result.open_projects) = 1 /\ selectedProject = Null
          THEN pendingAdds \cup {result.open_projects[1].project_path}
          ELSE pendingAdds
    /\ openGen' = id
    /\ recentGen' = id
    /\ UNCHANGED error

RECURSIVE KeepFirst(_, _)
KeepFirst(s, seen) ==
    IF s = <<>> THEN <<>>
    ELSE IF Head(s).project_path \in seen
    THEN KeepFirst(Tail(s), seen)
    ELSE <<Head(s)>> \o KeepFirst(Tail(s), seen \cup {Head(s).project_path})

\* the success branch keeping one open entry per project path
ApplySuccessDedup(id, result) ==
    /\ openProjects' = KeepFirst(result.open_projects, {})
    /\ recentProjects' = result.recent_projects
    /\ selectedProject' = AutoSelect(result, selectedProject)
    /\ openGen' = id
    /\ recentGen' = id
    /\ UNCHANGED <<error, pendingAdds>>

\* lines 812-819: the success branch of refreshProjectsList for invocation id
ApplySuccess(id, result) ==
    /\ openProjects' = result.open_projects
    /\ recentProjects' = result.recent_projects
    /\ selectedProject' = AutoSelect(result, selectedProject)
    /\ openGen' = id
    /\ recentGen' = id
    /\ UNCHANGED <<error, pendingAdds>>

\* the failure branches also emptying the lists
ApplyFailureClears(kind) ==
    /\ error' = IF kind = "fail" THEN "Failed to get projects list"
                                 ELSE "Error getting projects"
    /\ openProjects' = <<>>
    /\ recentProjects' = <<>>
    /\ UNCHANGED <<selectedProject, openGen, recentGen, pendingAdds>>

\* the failure branches also dropping the selection
ApplyFailureDeselects(kind) ==
    /\ error' = IF kind = "fail" THEN "Failed to get projects list"
                                 ELSE "Error getting projects"
    /\ selectedProject' = Null
    /\ UNCHANGED <<openProjects, recentProjects, openGen, recentGen,
                   pendingAdds>>

\* lines 820-825: the failure branches (kind is "fail" or "throw")
ApplyFailure(kind) ==
    /\ error' = IF kind = "fail" THEN "Failed to get projects list"
                                 ELSE "Error getting projects"
    /\ UNCHANGED <<openProjects, recentProjects, selectedProject, openGen,
                   recentGen, pendingAdds>>

\* a completion without the finally block: a rejection leaves loading set
DeliverNoFinally(id) ==
    /\ ~BrowseResumes
    /\ calls[id].pc = "issued"
    /\ \E kind \in {"ok", "fail", "throw"} :
          /\ IF kind = "ok" THEN ApplySuccess(id, calls[id].res)
                            ELSE ApplyFailure(kind)
          /\ lastDone' = IF kind = "ok" THEN calls[id].res ELSE lastDone
          /\ overtaken' = IF kind = "ok" THEN Overtaken(id) ELSE overtaken \ {id}
          /\ loading' = IF kind = "throw" THEN loading ELSE FALSE
    /\ calls' = [calls EXCEPT ![id] = DoneCall]
    /\ issueOrder' = SeqWithout(issueOrder, id)
    /\ UNCHANGED <<stage, api, showAllRecent, refreshTimer, nextId, browse,
                   store>>
    /\ UNCHANGED <<quiet, timerVars>>

\* a completion whose failure branches also call stopRefreshTimer
DeliverFailureStopsTimer(id) ==
    /\ ~BrowseResumes
    /\ calls[id].pc = "issued"
    /\ \E kind \in {"ok", "fail", "throw"} :
          /\ IF kind = "ok" THEN ApplySuccess(id, calls[id].res)
                            ELSE ApplyFailure(kind)
          /\ lastDone' = IF kind = "ok" THEN calls[id].res ELSE lastDone
          /\ overtaken' = IF kind = "ok" THEN Overtaken(id) ELSE overtaken \ {id}
          /\ refreshTimer' = IF kind = "ok" THEN refreshTimer ELSE 0
    /\ loading' = FALSE
    /\ calls' = [calls EXCEPT ![id] = DoneCall]
    /\ issueOrder' = SeqWithout(issueOrder, id)
    /\ UNCHANGED <<stage, api, showAllRecent, nextId, browse, store>>
    /\ UNCHANGED <<quiet, activeTimers, handles>>

\* the get_projects_list promise of invocation id settles; lines 812-828
Deliver(id) ==
    /\ ~BrowseResumes
    /\ calls[id].pc = "issued"
    /\ \E kind \in {"ok", "fail", "throw"} :
          /\ IF kind = "ok" THEN ApplySuccess(id, calls[id].res)
                            ELSE ApplyFailure(kind)
          /\ lastDone' = IF kind = "ok" THEN calls[id].res ELSE lastDone
          /\ overtaken' = IF kind = "ok" THEN Overtaken(id) ELSE overtaken \ {id}
    /\ loading' = FALSE
    /\ calls' = [calls EXCEPT ![id] = DoneCall]
    /\ issueOrder' = SeqWithout(issueOrder, id)
    /\ UNCHANGED <<stage, api, showAllRecent, refreshTimer, nextId, browse,
                   store>>
    /\ UNCHANGED <<quiet, timerVars>>

\* waitForAPI inside invocation id: one setTimeout delay elapses (lines 788-796),
\* then either the loop ends (lines 805-808, 826-828) or the next check runs
WaitStep(id) ==
    /\ ~BrowseResumes
    /\ calls[id].pc = "wait"
    /\ IF calls[id].i >= MaxAttempts
       THEN /\ error' = "pywebview API not available"
            /\ loading' = FALSE
            /\ calls' = [calls EXCEPT ![id] = DoneCall]
            /\ UNCHANGED issueOrder
       ELSE IF api
       THEN /\ \E L \in LiveOptions :
                  calls' = [calls EXCEPT ![id] =
                              [pc |-> "issued", i |-> 0,
                               res |-> ProjectsListResult(id, L, store)]]
            /\ issueOrder' = Append(issueOrder, id)
            /\ UNCHANGED <<error, loading>>
       ELSE /\ calls' = [calls EXCEPT ![id].i = @ + 1]
            /\ UNCHANGED <<error, loading, issueOrder>>
    /\ UNCHANGED <<stage, api, openProjects, recentProjects, selectedProject,
                   showAllRecent, refreshTimer, nextId, browse, store,
                   pendingAdds, lastDone, openGen, recentGen>>
    /\ UNCHANGED <<quiet, timerVars, overtaken>>

\* startRefreshTimer without the clearInterval of the stored timer
StartRefreshTimerNoClear ==
    /\ activeTimers' = activeTimers \cup {handles + 1}
    /\ refreshTimer' = handles + 1
    /\ handles' = handles + 1

\* startRefreshTimer, lines 898-905: clearInterval of the stored timer, then
\* setInterval, whose fresh handle is stored
StartRefreshTimer ==
    /\ activeTimers' = (IF refreshTimer # 0 THEN activeTimers \ {refreshTimer}
                                            ELSE activeTimers)
                        \cup {handles + 1}
    /\ refreshTimer' = handles + 1
    /\ handles' = handles + 1

\* stopRefreshTimer, lines 907-912
StopRefreshTimer ==
    /\ activeTimers' = (IF refreshTimer # 0 THEN activeTimers \ {refreshTimer}
                                            ELSE activeTimers)
    /\ refreshTimer' = 0
    /\ UNCHANGED handles

\* onMounted, lines 1042-1045
Mount ==
    /\ stage = "setup"
    /\ stage' = "mounted"
    /\ StartCycle(nextId + 1)
    /\ StartRefreshTimer
    /\ UNCHANGED <<api, openProjects, recentProjects, selectedProject,
                   showAllRecent, browse, store, pendingAdds, lastDone,
                   openGen, recentGen>>
    /\ UNCHANGED quiet

\* onUnmounted, lines 1047-1049
Unmount ==
    /\ ~BrowseResumes
    /\ stage = "mounted"
    /\ stage' = "unmounted"
    /\ StopRefreshTimer
    /\ UNCHANGED <<api, openProjects, recentProjects, selectedProject,
                   loading, error, showAllRecent, calls, nextId, browse,
                   store, pendingAdds, lastDone, openGen, recentGen>>
    /\ UNCHANGED <<quiet, issueVars>>

\* REFRESH_INTERVAL_MS (10 s) is longer than the whole of waitForAPI
\* (20 attempts of 100 ms): no invocation is still waiting for the bridge when
\* the interval fires
NoCycleWaiting == \A id \in CallIds : calls[id].pc # "wait"

\* the setInterval callback of a timer that is set, lines 902-904
Tick ==
    /\ ~BrowseResumes
    /\ activeTimers # {}
    /\ NoCycleWaiting
    /\ CanStart
    /\ StartCycle(nextId + 1)
    /\ UNCHANGED <<stage, api, openProjects, recentProjects, selectedProject,
                   showAllRecent, refreshTimer, browse, store, pendingAdds,
                   lastDone, openGen, recentGen>>
    /\ UNCHANGED <<quiet, timerVars>>

\* the refresh button, lines 1056-1058: disabled while loading
ManualRefresh ==
    /\ ~BrowseResumes
    /\ stage = "mounted"
    /\ ~loading
    /\ CanStart
    /\ StartCycle(nextId + 1)
    /\ UNCHANGED <<stage, api, openProjects, recentProjects, selectedProject,
                   showAllRecent, refreshTimer, browse, store, pendingAdds,
                   lastDone, openGen, recentGen>>
    /\ UNCHANGED <<quiet, timerVars>>

----------------------------------------------------------------------------
(* Selection and browseForProject *)

\* selectProject(project, isOpen), lines 862-869; the add_recent_project call
\* is not awaited
SelectProject(project, isOpen) ==
    /\ selectedProject' = project
    /\ pendingAdds' = IF ~isOpen /\ "path" \in DOMAIN project /\ api
                      THEN pendingAdds \cup {project.path}
                      ELSE pendingAdds

\* click on a row of the open list, line 1082
SelectOpen(k) ==
    /\ ~BrowseResumes
    /\ ListsVisible
    /\ k \in DOMAIN RenderedOpen
    /\ SelectProject(openProjects[k], TRUE)
    /\ UNCHANGED <<stage, api, openProjects, recentProjects, loading, error,
                   showAllRecent, refreshTimer, calls, nextId, browse, store,
                   lastDone, openGen, recentGen>>
    /\ UNCHANGED others

\* click on a row of the recent list, line 1105
SelectRecent(k) ==
    /\ ~BrowseResumes
    /\ ListsVisible
    /\ k \in DOMAIN VisibleRecentProjects
    /\ SelectProject(VisibleRecentProjects[k], FALSE)
    /\ UNCHANGED <<stage, api, openProjects, recentProjects, loading, error,
                   showAllRecent, refreshTimer, calls, nextId, browse, store,
                   lastDone, openGen, recentGen>>
    /\ UNCHANGED others

\* ok is the success field of the add_recent_project result
IdleBrowse == [pc |-> "idle", i |-> 0, path |-> NoPath, call |-> 0, ok |-> TRUE]

\* the browse button, lines 831-839: waitForAPI, then browse_for_project()
BrowseClick ==
    /\ ~BrowseResumes
    /\ ListsVisible
    /\ browse.pc = "idle"
    /\ browse' = IF api THEN [IdleBrowse EXCEPT !.pc = "picking"]
                        ELSE [IdleBrowse EXCEPT !.pc = "wait", !.i = 1]
    /\ UNCHANGED <<stage, api, openProjects, recentProjects, selectedProject,
                   loading, error, showAllRecent, refreshTimer, calls, nextId,
                   store, pendingAdds, lastDone, openGen, recentGen>>
    /\ UNCHANGED others

\* waitForAPI inside browseForProject, lines 833-837
BrowseWait ==
    /\ ~BrowseResumes
    /\ browse.pc = "wait"
    /\ IF browse.i >= MaxAttempts
       THEN /\ error' = "pywebview API not available"
            /\ browse' = IdleBrowse
       ELSE IF api
       THEN /\ browse' = [IdleBrowse EXCEPT !.pc = "picking"]
            /\ UNCHANGED error
       ELSE /\ browse' = [browse EXCEPT !.i = @ + 1]
            /\ UNCHANGED error
    /\ UNCHANGED <<stage, api, openProjects, recentProjects, selectedProject,
                   loading, showAllRecent, refreshTimer, calls, nextId, store,
                   pendingAdds, lastDone, openGen, recentGen>>
    /\ UNCHANGED others

\* browse_for_project() settles, lines 839-843 and 853-859: a picked path
\* (then add_recent_project is called), a cancel, an error result, or a throw
BrowsePicked ==
    /\ ~BrowseResumes
    /\ browse.pc = "picking"
    /\ \/ \E p \in PickPaths :
            /\ browse' = [browse EXCEPT !.pc = "adding", !.path = p]
            /\ UNCHANGED error
       \/ /\ browse' = IdleBrowse
          /\ UNCHANGED error
       \/ /\ browse' = IdleBrowse
          /\ error' \in {"browse failed", "Error browsing for project"}
    /\ UNCHANGED <<stage, api, openProjects, recentProjects, selectedProject,
                   loading, showAllRecent, refreshTimer, calls, nextId, store,
                   pendingAdds, lastDone, openGen, recentGen>>
    /\ UNCHANGED others

\* the backend serves the awaited add_recent_project(path): the answer of the
\* store; or, for a path the store accepts, a failure result for another
\* reason, or the call raises
BrowseAddServed ==
    /\ ~BrowseResumes
    /\ browse.pc = "adding"
    /\ LET r == AddRecentProject(store, browse.path)
       IN  \/ /\ store' = r.store
              /\ browse' = [browse EXCEPT
                              !.pc = IF r.raised THEN "addthrew" ELSE "added",
                              !.ok = r.success]
           \/ /\ r.success
              /\ UNCHANGED store
              /\ browse' = [browse EXCEPT !.pc = "added", !.ok = FALSE]
           \/ /\ r.success
              /\ UNCHANGED store
              /\ browse' = [browse EXCEPT !.pc = "addthrew", !.ok = FALSE]
    /\ UNCHANGED <<stage, api, openProjects, recentProjects, selectedProject,
                   loading, error, showAllRecent, refreshTimer, calls, nextId,
                   pendingAdds, lastDone, openGen, recentGen>>
    /\ UNCHANGED others

\* browseForProject without the await on add_recent_project: the call is put
\* on the wire and refreshProjectsList starts at once
BrowseAddedNoAwait ==
    /\ ~BrowseResumes
    /\ browse.pc \in {"adding", "added"}
    /\ CanStart
    /\ StartCycle(nextId + 1)
    /\ browse' = [browse EXCEPT !.pc = "refreshing", !.call = nextId + 1]
    /\ pendingAdds' = IF browse.pc = "adding"
                      THEN pendingAdds \cup {browse.path}
                      ELSE pendingAdds
    /\ UNCHANGED <<stage, api, openProjects, recentProjects, selectedProject,
                   showAllRecent, refreshTimer, store, lastDone, openGen,
                   recentGen>>
    /\ UNCHANGED <<quiet, timerVars>>

\* the awaited add_recent_project settles, lines 843-846: its result is not
\* looked at and refreshProjectsList starts; lines 856-859 when it raised
BrowseAdded ==
    /\ ~BrowseResumes
    /\ \/ /\ browse.pc = "added"
          /\ CanStart
          /\ StartCycle(nextId + 1)
          /\ browse' = [browse EXCEPT !.pc = "refreshing", !.call = nextId + 1]
       \/ /\ browse.pc = "addthrew"
          /\ error' = "Error browsing for project"
          /\ browse' = IdleBrowse
          /\ UNCHANGED <<loading, calls, nextId, issueVars>>
    /\ UNCHANGED <<stage, api, openProjects, recentProjects, selectedProject,
                   showAllRecent, refreshTimer, store, pendingAdds, lastDone,
                   openGen, recentGen>>
    /\ UNCHANGED <<quiet, timerVars>>

\* Array.find(p => p.path === path), line 849; Null when there is none
FindRecent(recent, path) ==
    IF \E i \in DOMAIN recent : recent[i].path = path
    THEN recent[CHOOSE i \in DOMAIN recent :
                   /\ recent[i].path = path
                   /\ \A j \in 1..(i - 1) : recent[j].path # path]
    ELSE Null

\* lines 848-852: after the awaited refresh, select the newly added project
BrowseSelect ==
    /\ BrowseResumes
    /\ LET newProject == FindRecent(recentProjects, browse.path)
       IN  IF newProject # Null
           THEN SelectProject(newProject, FALSE)
           ELSE UNCHANGED <<selectedProject, pendingAdds>>
    /\ browse' = IdleBrowse
    /\ UNCHANGED <<stage, api, openProjects, recentProjects, loading, error,
                   showAllRecent, refreshTimer, calls, nextId, store,
                   lastDone, openGen, recentGen>>
    /\ UNCHANGED others

----------------------------------------------------------------------------
(* Environment: the bridge, the backend and KiCad *)

\* pywebview injects window.pywebview.api
ApiReady ==
    /\ ~BrowseResumes
    /\ ~api
    /\ api' = TRUE
    /\ UNCHANGED <<stage, openProjects, recentProjects, selectedProject,
                   loading, error, showAllRecent, refreshTimer, calls, nextId,
                   browse, store, pendingAdds, lastDone, openGen, recentGen>>
    /\ UNCHANGED others

\* the backend serves a fire-and-forget add_recent_project(p)
BackendAdd(p) ==
    /\ ~BrowseResumes
    /\ p \in pendingAdds
    /\ store' = AddRecentProject(store, p).store
    /\ pendingAdds' = pendingAdds \ {p}
    /\ UNCHANGED <<stage, api, openProjects, recentProjects, selectedProject,
                   loading, error, showAllRecent, refreshTimer, calls, nextId,
                   browse, lastDone, openGen, recentGen>>
    /\ UNCHANGED others

----------------------------------------------------------------------------
(* The Recency Store of the backend (spec.md 4.3 and 7): add_recent_project   *)
(* and remove_recent_project with the last_opened timestamps                  *)

\* the paths the callers pass: "/a", "/A", "\A", "/b", "/c" and "a"
StoreCallPaths == { PathA, PathAU, PathWinAU, PathB, PathC, PathBad }

StoredPaths == { Normalize(p) : p \in StoreCallPaths }

NoOp == [op |-> "none", path |-> NoPath, success |-> TRUE, raised |-> FALSE,
         before |-> <<>>]

\* one add_recent_project(p) call served by the backend
StoreAddCall(p) ==
    /\ clock < MaxStoreOps
    /\ LET r == AddRecentProject(store, p)
       IN  /\ store' = r.store
           /\ stamps' = IF r.success
                         THEN [stamps EXCEPT ![Normalize(p)] = clock + 1]
                         ELSE stamps
           /\ lastOp' = [op |-> "add", path |-> p, success |-> r.success,
                         raised |-> r.raised, before |-> store]
    /\ clock' = clock + 1
    /\ UNCHANGED <<stage, api, openProjects, recentProjects, selectedProject,
                   loading, error, showAllRecent, refreshTimer, calls, nextId,
                   browse, pendingAdds, lastDone, openGen, recentGen>>
    /\ UNCHANGED <<rendered, detectVars, probeVars, waits>>
    /\ UNCHANGED <<issueVars, timerVars, wizardVars, chatVars>>

\* one remove_recent_project(p) call served by the backend
StoreRemoveCall(p) ==
    /\ clock < MaxStoreOps
    /\ LET r == RemoveRecentProject(store, p)
       IN  /\ store' = r.store
           /\ stamps' = IF r.success
                         THEN [stamps EXCEPT ![Normalize(p)] = 0]
                         ELSE stamps
           /\ lastOp' = [op |-> "remove", path |-> p, success |-> r.success,
                         raised |-> r.raised, before |-> store]
    /\ clock' = clock + 1
    /\ UNCHANGED <<stage, api, openProjects, recentProjects, selectedProject,
                   loading, error, showAllRecent, refreshTimer, calls, nextId,
                   browse, pendingAdds, lastDone, openGen, recentGen>>
    /\ UNCHANGED <<rendered, detectVars, probeVars, waits>>
    /\ UNCHANGED <<issueVars, timerVars, wizardVars, chatVars>>

----------------------------------------------------------------------------
(* KiCadInstanceSelector.vue, the selector App.vue mounts: detectInstances.  *)
(* Its refs loading and error, its lifecycle and the bridge are the          *)
(* variables loading, error, stage and api.                                  *)

\* the answers of detect_kicad_instances()
DetectOptions ==
    { <<>>,
      <<Instance("s1", PathAU)>>,
      <<Instance("s2", PathB)>>,
      <<Instance("s1", PathAU), Instance("s2", PathB)>>,
      <<Instance("s1", NoPath), Instance("s2", PathB)>> }

\* last is the outcome of the last completed invocation
IdleDetect == [pc |-> "idle", i |-> 0, last |-> "none"]

\* lines 20-33: the synchronous start and the first waitForAPI check
DetectStart ==
    /\ loading' = TRUE
    /\ error' = ""
    /\ detect' = IF api THEN [detect EXCEPT !.pc = "issued", !.i = 0]
                        ELSE [detect EXCEPT !.pc = "wait", !.i = 1]

\* lines 33-41: the answer is stored; one instance is selected, none is
\* reported through error
DetectApplied(detected) ==
    /\ instances' = detected
    /\ selectedInstance' = IF Len(detected) = 1 THEN detected[1]
                                                ELSE selectedInstance
    /\ error' = IF Len(detected) = 0
                THEN "No KiCAD instances detected. Please make sure KiCAD is running."
                ELSE error

\* onMounted, lines 57-59
DetectMount ==
    /\ stage = "setup"
    /\ stage' = "mounted"
    /\ DetectStart
    /\ UNCHANGED <<api, openProjects, recentProjects, selectedProject,
                   showAllRecent, refreshTimer, calls, nextId, browse, store,
                   pendingAdds, lastDone, openGen, recentGen>>
    /\ UNCHANGED <<rendered, storeVars, instances, selectedInstance,
                   probeVars, waits>>
    /\ UNCHANGED <<issueVars, timerVars, wizardVars, chatVars>>

\* the refresh button, line 66: disabled while loading
DetectClick ==
    /\ stage = "mounted"
    /\ ~loading
    /\ DetectStart
    /\ UNCHANGED <<stage, api, openProjects, recentProjects, selectedProject,
                   showAllRecent, refreshTimer, calls, nextId, browse, store,
                   pendingAdds, lastDone, openGen, recentGen>>
    /\ UNCHANGED <<rendered, storeVars, instances, selectedInstance,
                   probeVars, waits>>
    /\ UNCHANGED <<issueVars, timerVars, wizardVars, chatVars>>

\* waitForAPI inside detectInstances, lines 10-18 and 26-31
DetectWait ==
    /\ detect.pc = "wait"
    /\ IF detect.i >= MaxAttempts
       THEN /\ error' = "pywebview API not available"
            /\ loading' = FALSE
            /\ detect' = [pc |-> "idle", i |-> 0, last |-> "noapi"]
       ELSE IF api
       THEN /\ detect' = [detect EXCEPT !.pc = "issued", !.i = 0]
            /\ UNCHANGED <<error, loading>>
       ELSE /\ detect' = [detect EXCEPT !.i = @ + 1]
            /\ UNCHANGED <<error, loading>>
    /\ UNCHANGED <<stage, api, openProjects, recentProjects, selectedProject,
                   showAllRecent, refreshTimer, calls, nextId, browse, store,
                   pendingAdds, lastDone, openGen, recentGen>>
    /\ UNCHANGED <<rendered, storeVars, instances, selectedInstance,
                   probeVars, waits>>
    /\ UNCHANGED <<issueVars, timerVars, wizardVars, chatVars>>

\* the detect_kicad_instances promise settles, lines 33-47
DetectDeliver ==
    /\ detect.pc = "issued"
    /\ \/ \E detected \in DetectOptions :
            /\ DetectApplied(detected)
            /\ detect' = [pc |-> "idle", i |-> 0, last |-> "ok"]
       \/ /\ error' = "Error detecting KiCAD instances"
          /\ detect' = [pc |-> "idle", i |-> 0, last |-> "throw"]
          /\ UNCHANGED <<instances, selectedInstance>>
    /\ loading' = FALSE
    /\ UNCHANGED <<stage, api, openProjects, recentProjects, selectedProject,
                   showAllRecent, refreshTimer, calls, nextId, browse, store,
                   pendingAdds, lastDone, openGen, recentGen>>
    /\ UNCHANGED <<rendered, storeVars, probeVars, waits>>
    /\ UNCHANGED <<issueVars, timerVars, wizardVars, chatVars>>

\* the dropdown of the multiple-instances branch, lines 116-131 (v-model)
SelectInstance(k) ==
    /\ stage = "mounted"
    /\ error = ""
    /\ ~loading
    /\ Len(instances) >= 2
    /\ k \in DOMAIN instances
    /\ selectedInstance' = instances[k]
    /\ UNCHANGED <<selectorVars, rendered, storeVars, instances, detect,
                   probeVars, waits>>
    /\ UNCHANGED <<issueVars, timerVars, wizardVars, chatVars>>

----------------------------------------------------------------------------
(* The Endpoint Prober of the backend (spec.md 4.2): probe(candidate,        *)
(* timeout) connects, asks for the version and classifies the outcome        *)

Candidates == { "c1", "c2" }

\* what is behind a candidate socket: a live server, a stale socket file
\* (connection refused), or a server that never answers
Natures == { "live", "stale", "silent" }

IdleProbe == [pc |-> "idle", nature |-> "live", t |-> 0, outcome |-> "none"]

\* probe(c, timeout) is started
ProbeStart(c) ==
    /\ probes[c].pc = "idle"
    /\ \E n \in Natures :
          probes' = [probes EXCEPT ![c] = [IdleProbe EXCEPT !.pc = "pending",
                                                         !.nature = n]]
    /\ UNCHANGED <<selectorVars, rendered, storeVars, detectVars, probedOpen,
                   waits>>
    /\ UNCHANGED <<issueVars, timerVars, wizardVars, chatVars>>

\* one time unit passes for the pending probe of c
ProbeTimePasses(c) ==
    /\ probes[c].pc = "pending"
    /\ probes[c].t < ProbeTimeout
    /\ probes' = [probes EXCEPT ![c].t = @ + 1]
    /\ UNCHANGED <<selectorVars, rendered, storeVars, detectVars, probedOpen,
                   waits>>
    /\ UNCHANGED <<issueVars, timerVars, wizardVars, chatVars>>

\* the live server answers in time: Alive, and the instance joins the open list
ProbeRespond(c) ==
    /\ probes[c].pc = "pending"
    /\ probes[c].nature = "live"
    /\ probes[c].t < ProbeTimeout
    /\ probes' = [probes EXCEPT ![c].pc = "done", ![c].outcome = "Alive"]
    /\ probedOpen' = Append(probedOpen, c)
    /\ UNCHANGED <<selectorVars, rendered, storeVars, detectVars, waits>>
    /\ UNCHANGED <<issueVars, timerVars, wizardVars, chatVars>>

\* the connection is refused: Unreachable
ProbeRefused(c) ==
    /\ probes[c].pc = "pending"
    /\ probes[c].nature = "stale"
    /\ probes[c].t < ProbeTimeout
    /\ probes' = [probes EXCEPT ![c].pc = "done", ![c].outcome = "Unreachable"]
    /\ UNCHANGED <<selectorVars, rendered, storeVars, detectVars, probedOpen,
                   waits>>
    /\ UNCHANGED <<issueVars, timerVars, wizardVars, chatVars>>

\* an expiry that leaves the attempt pending
ProbeExpireKeepsPending(c) ==
    /\ probes[c].pc = "pending"
    /\ probes[c].t >= ProbeTimeout
    /\ UNCHANGED vars

\* the timeout expires: the attempt is abandoned and classified TimedOut
ProbeExpire(c) ==
    /\ probes[c].pc = "pending"
    /\ probes[c].t >= ProbeTimeout
    /\ probes' = [probes EXCEPT ![c].pc = "done", ![c].outcome = "TimedOut"]
    /\ UNCHANGED <<selectorVars, rendered, storeVars, detectVars, probedOpen,
                   waits>>
    /\ UNCHANGED <<issueVars, timerVars, wizardVars, chatVars>>

----------------------------------------------------------------------------
(* waitForAPI(maxAttempts, delayMs), lines 788-796; its callers are           *)
(* refreshProjectsList and browseForProject                                   *)

Callers == { "refresh", "browse" }

\* checks counts the evaluations of window.pywebview?.api; seen records that
\* one of them found the bridge
IdleWait == [pc |-> "idle", i |-> 0, max |-> 0, checks |-> 0, seen |-> FALSE,
             ret |-> "none"]

\* waitForAPI(m) is called by caller c: let i = 0
WaitForAPICall(c, m) ==
    /\ waits[c].pc = "idle"
    /\ waits' = [waits EXCEPT ![c] = [IdleWait EXCEPT !.pc = "loop", !.max = m]]
    /\ UNCHANGED <<selectorVars, rendered, storeVars, detectVars, probeVars>>
    /\ UNCHANGED <<issueVars, timerVars, wizardVars, chatVars>>

\* the loop head with the test i <= maxAttempts
WaitForAPILoopInclusive(c) ==
    /\ waits[c].pc = "loop"
    /\ IF waits[c].i <= waits[c].max
       THEN IF api
            THEN waits' = [waits EXCEPT ![c].pc = "done", ![c].ret = "true",
                                        ![c].checks = @ + 1, ![c].seen = TRUE]
            ELSE waits' = [waits EXCEPT ![c].pc = "sleep", ![c].checks = @ + 1]
       ELSE waits' = [waits EXCEPT ![c].pc = "done", ![c].ret = "false"]
    /\ UNCHANGED <<selectorVars, rendered, storeVars, detectVars, probeVars>>
    /\ UNCHANGED <<issueVars, timerVars, wizardVars, chatVars>>

\* lines 789-795: the loop test i < maxAttempts, then the check of
\* window.pywebview?.api: return true, or start the delay; line 795: false
WaitForAPILoop(c) ==
    /\ waits[c].pc = "loop"
    /\ IF waits[c].i < waits[c].max
       THEN IF api
            THEN waits' = [waits EXCEPT ![c].pc = "done", ![c].ret = "true",
                                        ![c].checks = @ + 1, ![c].seen = TRUE]
            ELSE waits' = [waits EXCEPT ![c].pc = "sleep", ![c].checks = @ + 1]
       ELSE waits' = [waits EXCEPT ![c].pc = "done", ![c].ret = "false"]
    /\ UNCHANGED <<selectorVars, rendered, storeVars, detectVars, probeVars>>
    /\ UNCHANGED <<issueVars, timerVars, wizardVars, chatVars>>

\* line 793: the setTimeout of delayMs fires, then i++
WaitForAPIWake(c) ==
    /\ waits[c].pc = "sleep"
    /\ waits' = [waits EXCEPT ![c].pc = "loop", ![c].i = @ + 1]
    /\ UNCHANGED <<selectorVars, rendered, storeVars, detectVars, probeVars>>
    /\ UNCHANGED <<issueVars, timerVars, wizardVars, chatVars>>

----------------------------------------------------------------------------
(* RequirementsWizard.vue, mounted by the project selector (lines 1198-1204). *)
(* epoch is history: the opening of the wizard in which the nextStep that     *)
(* made a call, or produced a value, was started; 0 for the default questions *)

\* lines 21-24: questions = [], the synthesized documents = ''
NoQuestions == [from |-> "none", epoch |-> 0]
NoDocuments == [text |-> "", epoch |-> 0]
\* no nextStep is running
IdleNext == [pc |-> "idle", epoch |-> 0]

\* INITIAL_QUESTIONS, lines 28-43
InitialIds == {"objectives", "known_parts"}
\* the ids of the detailed questions (the default ones and the refined ones)
DetailIds == {"d1", "d2", "d3"}

QuestionIds(q) == IF q.from = "none" THEN {} ELSE DetailIds

\* computed currentQuestions, lines 53-58
CurrentQuestions ==
    IF currentStep = 0 THEN InitialIds ELSE QuestionIds(questions)

\* computed canProceed, lines 60-77; an answer to "objectives" is one of more
\* than 10 characters
CanProceed ==
    IF isLoading THEN FALSE
    ELSE IF currentStep = 0 THEN "objectives" \in answers
    ELSE IF currentStep = 1
    THEN Cardinality(answers \cap QuestionIds(questions)) >= 3
    ELSE TRUE

\* the selector's button, lines 984-986 and 1168, and the watcher of
\* props.visible, lines 217-226, up to its await on get_wizard_questions
OpenRequirementsWizard ==
    /\ ~BrowseResumes
    /\ ~visible
    /\ opens < MaxOpens
    /\ visible' = TRUE
    /\ opens' = opens + 1
    /\ currentStep' = 0
    /\ answers' = {}
    /\ synthesized' = NoDocuments
    /\ wizardError' = ""
    /\ loadPending' = IF api THEN loadPending + 1 ELSE loadPending
    /\ UNCHANGED <<isLoading, questions, nextCall>>
    /\ UNCHANGED <<selectorVars, rendered, storeVars, detectVars, probeVars,
                   waits, issueVars, timerVars, chatVars>>

\* the close button of the header, lines 235-237 (never disabled), or Cancel,
\* line 344 (disabled while loading): close() emits 'close' and the parent
\* sets showRequirementsWizard = false, lines 988-990
CloseWizard ==
    /\ ~BrowseResumes
    /\ visible
    /\ visible' = FALSE
    /\ UNCHANGED <<currentStep, isLoading, wizardError, answers, questions,
                   synthesized, nextCall, loadPending, opens>>
    /\ UNCHANGED <<selectorVars, rendered, storeVars, detectVars, probeVars,
                   waits, issueVars, timerVars, chatVars>>

\* the user answers a question of the form, lines 276-308: the form is
\* rendered when the wizard is not loading and not in the review phase
SetAnswer(q) ==
    /\ ~BrowseResumes
    /\ visible
    /\ ~isLoading
    /\ currentStep # 2
    /\ q \in CurrentQuestions \ answers
    /\ answers' = answers \cup {q}
    /\ UNCHANGED <<visible, currentStep, isLoading, wizardError, questions,
                   synthesized, nextCall, loadPending, opens>>
    /\ UNCHANGED <<selectorVars, rendered, storeVars, detectVars, probeVars,
                   waits, issueVars, timerVars, chatVars>>

\* the dismiss button of the error banner, lines 261-267
DismissError ==
    /\ ~BrowseResumes
    /\ visible
    /\ wizardError # ""
    /\ wizardError' = ""
    /\ UNCHANGED <<visible, currentStep, isLoading, answers, questions,
                   synthesized, nextCall, loadPending, opens>>
    /\ UNCHANGED <<selectorVars, rendered, storeVars, detectVars, probeVars,
                   waits, issueVars, timerVars, chatVars>>

\* the Continue / Save button, lines 347-351, and nextStep, lines 191-204, up
\* to the backend call of refineQuestions (109-119), synthesizeRequirements
\* (138-150) or saveRequirements (167-176); without the bridge nothing is
\* awaited and the step is set at once
NextStep ==
    /\ ~BrowseResumes
    /\ visible
    /\ CanProceed
    /\ wizardError' = ""
    /\ IF api
       THEN /\ isLoading' = TRUE
            /\ nextCall' = [pc |-> CASE currentStep = 0 -> "refine"
                                     [] currentStep = 1 -> "synthesize"
                                     [] OTHER -> "save",
                            epoch |-> opens]
            /\ UNCHANGED currentStep
       ELSE /\ isLoading' = FALSE
            /\ currentStep' = IF currentStep = 2 THEN 2 ELSE currentStep + 1
            /\ UNCHANGED nextCall
    /\ UNCHANGED <<visible, answers, questions, synthesized, loadPending,
                   opens>>
    /\ UNCHANGED <<selectorVars, rendered, storeVars, detectVars, probeVars,
                   waits, issueVars, timerVars, chatVars>>

\* refine_wizard_questions settles, lines 119-127 and 129-131: on success the
\* refined questions are stored, the finally block runs and nextStep sets
\* step 1 (line 195); otherwise error is set and loadQuestions is awaited
RefineSettles ==
    /\ ~BrowseResumes
    /\ nextCall.pc = "refine"
    /\ \/ /\ questions' = [from |-> "refined", epoch |-> nextCall.epoch]
          /\ isLoading' = FALSE
          /\ currentStep' = 1
          /\ nextCall' = IdleNext
          /\ UNCHANGED wizardError
       \/ /\ wizardError' \in {"Failed to refine questions", "Error"}
          /\ nextCall' = [nextCall EXCEPT !.pc = "fallback"]
          /\ UNCHANGED <<questions, isLoading, currentStep>>
    /\ UNCHANGED <<visible, answers, synthesized, loadPending, opens>>
    /\ UNCHANGED <<selectorVars, rendered, storeVars, detectVars, probeVars,
                   waits, issueVars, timerVars, chatVars>>

\* the get_wizard_questions call of the fallback settles, lines 97-105, then
\* the finally block of refineQuestions (133) and line 195 of nextStep
FallbackSettles ==
    /\ ~BrowseResumes
    /\ nextCall.pc = "fallback"
    /\ \/ questions' = [from |-> "default", epoch |-> 0]
       \/ UNCHANGED questions
    /\ isLoading' = FALSE
    /\ currentStep' = 1
    /\ nextCall' = IdleNext
    /\ UNCHANGED <<visible, wizardError, answers, synthesized, loadPending,
                   opens>>
    /\ UNCHANGED <<selectorVars, rendered, storeVars, detectVars, probeVars,
                   waits, issueVars, timerVars, chatVars>>

\* synthesize_requirements settles, lines 146-163, then line 199 of nextStep
SynthesizeSettles ==
    /\ ~BrowseResumes
    /\ nextCall.pc = "synthesize"
    /\ \/ /\ synthesized' = [text |-> "doc", epoch |-> nextCall.epoch]
          /\ UNCHANGED wizardError
       \/ /\ wizardError' \in {"Failed to synthesize requirements", "Error"}
          /\ UNCHANGED synthesized
    /\ isLoading' = FALSE
    /\ currentStep' = 2
    /\ nextCall' = IdleNext
    /\ UNCHANGED <<visible, answers, questions, loadPending, opens>>
    /\ UNCHANGED <<selectorVars, rendered, storeVars, detectVars, probeVars,
                   waits, issueVars, timerVars, chatVars>>

\* save_requirements settles, lines 172-188: on success 'saved' is emitted
\* and the parent hides the wizard, lines 992-996
SaveSettles ==
    /\ ~BrowseResumes
    /\ nextCall.pc = "save"
    /\ \/ /\ visible' = FALSE
          /\ UNCHANGED wizardError
       \/ /\ wizardError' \in {"Failed to save requirements", "Error"}
          /\ UNCHANGED visible
    /\ isLoading' = FALSE
    /\ nextCall' = IdleNext
    /\ UNCHANGED <<currentStep, answers, questions, synthesized, loadPending,
                   opens>>
    /\ UNCHANGED <<selectorVars, rendered, storeVars, detectVars, probeVars,
                   waits, issueVars, timerVars, chatVars>>

\* prevStep without its "currentStep > 0" test, behind a Back button that is
\* always rendered
PrevStepUnguarded ==
    /\ ~BrowseResumes
    /\ visible
    /\ ~isLoading
    /\ currentStep' = currentStep - 1
    /\ UNCHANGED <<visible, isLoading, wizardError, answers, questions,
                   synthesized, nextCall, loadPending, opens>>
    /\ UNCHANGED <<selectorVars, rendered, storeVars, detectVars, probeVars,
                   waits, issueVars, timerVars, chatVars>>

\* the Back button, lines 334-341, and prevStep, lines 206-210
PrevStep ==
    /\ ~BrowseResumes
    /\ visible
    /\ ~isLoading
    /\ currentStep > 0
    /\ currentStep' = currentStep - 1
    /\ UNCHANGED <<visible, isLoading, wizardError, answers, questions,
                   synthesized, nextCall, loadPending, opens>>
    /\ UNCHANGED <<selectorVars, rendered, storeVars, detectVars, probeVars,
                   waits, issueVars, timerVars, chatVars>>

\* a get_wizard_questions call of the watcher settles, lines 97-105: the
\* default questions are stored, or nothing on a failure
LoadQuestionsSettles ==
    /\ ~BrowseResumes
    /\ loadPending > 0
    /\ loadPending' = loadPending - 1
    /\ \/ questions' = [from |-> "default", epoch |-> 0]
       \/ UNCHANGED questions
    /\ UNCHANGED <<visible, currentStep, isLoading, wizardError, answers,
                   synthesized, nextCall, opens>>
    /\ UNCHANGED <<selectorVars, rendered, storeVars, detectVars, probeVars,
                   waits, issueVars, timerVars, chatVars>>

----------------------------------------------------------------------------
(* ChatBox.vue *)

\* before onMounted
IdleKeyCheck == [pc |-> "idle", i |-> 0]
\* no send_message call is pending and none was made
IdleSend == [pc |-> "idle", id |-> 0]

\* what the user can type into the message box: nothing, white space, a text
InputTexts == {"", " ", "hi"}

\* !inputMessage.value.trim(), line 133
IsBlank(t) == t \in {"", " "}

\* the keys the user can type into the prompt, by what saveApiKey tests:
\* blank, shorter than 30 characters, long without the "AIza" prefix, well formed
KeyKinds == {"empty", "short", "noprefix", "valid"}

\* a Message, lines 5-10 (id and timestamp left out)
Msg(sender, text, call) == [sender |-> sender, text |-> text, call |-> call]

\* the bound on the message list: n more messages fit, beside the reply of
\* the pending call
RoomFor(n) ==
    Len(messages) + n + (IF sendCall.pc = "sent" THEN 1 ELSE 0) <= MaxMessages

\* the unchanged rest of the program
ChatOnly == UNCHANGED <<selectorVars, rendered, storeVars, detectVars, probeVars,
                        waits, wizardVars, issueVars, timerVars>>

\* onMounted, lines 220-223, and the first pass of the loop of
\* waitForPywebviewAndCheckApiKey, lines 56-63
ChatMount ==
    /\ ~BrowseResumes
    /\ keyCheck.pc = "idle"
    /\ keyCheck' = IF api THEN [pc |-> "checking", i |-> 0]
                         ELSE [pc |-> "wait", i |-> 1]
    /\ UNCHANGED <<messages, inputMessage, hasApiKey, showApiKeyPrompt,
                   chatIsLoading, apiKeyInput, apiKeyError, apiKeyWarning,
                   sendCall, savePending>>
    /\ ChatOnly

\* the 100 ms timeout of the loop fires, lines 56-68: the next pass, or after
\* the last pass the prompt is shown
ChatWaitWake ==
    /\ ~BrowseResumes
    /\ keyCheck.pc = "wait"
    /\ IF keyCheck.i >= MaxAttempts
       THEN /\ showApiKeyPrompt' = TRUE
            /\ keyCheck' = [pc |-> "done", i |-> 0]
       ELSE /\ keyCheck' = IF api THEN [pc |-> "checking", i |-> 0]
                                 ELSE [keyCheck EXCEPT !.i = @ + 1]
            /\ UNCHANGED showApiKeyPrompt
    /\ UNCHANGED <<messages, inputMessage, hasApiKey, chatIsLoading,
                   apiKeyInput, apiKeyError, apiKeyWarning, sendCall,
                   savePending>>
    /\ ChatOnly

\* check_api_key settles, lines 38-48
CheckApiKeySettles ==
    /\ ~BrowseResumes
    /\ keyCheck.pc = "checking"
    /\ keyCheck' = [pc |-> "done", i |-> 0]
    /\ \/ \E has \in BOOLEAN :
            /\ hasApiKey' = has
            /\ showApiKeyPrompt' = IF has THEN showApiKeyPrompt ELSE TRUE
       \/ UNCHANGED <<hasApiKey, showApiKeyPrompt>>
    /\ UNCHANGED <<messages, inputMessage, chatIsLoading, apiKeyInput,
                   apiKeyError, apiKeyWarning, sendCall, savePending>>
    /\ ChatOnly

\* the settings button, line 272, and Cancel in the prompt, line 252
TogglePrompt ==
    /\ ~BrowseResumes
    /\ showApiKeyPrompt' = ~showApiKeyPrompt
    /\ UNCHANGED <<messages, inputMessage, hasApiKey, chatIsLoading,
                   apiKeyInput, apiKeyError, apiKeyWarning, keyCheck, sendCall,
                   savePending>>
    /\ ChatOnly

\* the user types a key into the prompt, line 238
TypeApiKey(k) ==
    /\ ~BrowseResumes
    /\ showApiKeyPrompt
    /\ k # apiKeyInput
    /\ apiKeyInput' = k
    /\ UNCHANGED <<messages, inputMessage, hasApiKey, showApiKeyPrompt,
                   chatIsLoading, apiKeyError, apiKeyWarning, keyCheck,
                   sendCall, savePending>>
    /\ ChatOnly

\* saveApiKey, lines 72-96 and 121-125, up to the set_api_key call
SaveApiKey ==
    /\ ~BrowseResumes
    /\ showApiKeyPrompt
    /\ apiKeyInput # "empty"
    /\ savePending < MaxSaves
    /\ apiKeyWarning' = ""
    /\ IF apiKeyInput = "short"
       THEN /\ apiKeyError' = "API key seems too short"
            /\ UNCHANGED <<savePending>>
       ELSE IF apiKeyInput = "noprefix"
       THEN /\ apiKeyError' = "not a valid Gemini API key"
            /\ UNCHANGED <<savePending>>
       ELSE IF ~api
       THEN /\ apiKeyError' = "Application backend not available"
            /\ UNCHANGED <<savePending>>
       ELSE /\ apiKeyError' = ""
            /\ savePending' = savePending + 1
    /\ UNCHANGED <<messages, inputMessage, hasApiKey, showApiKeyPrompt,
                   chatIsLoading, apiKeyInput, keyCheck, sendCall>>
    /\ ChatOnly

\* set_api_key settles, lines 97-120 and 126-129: on success the prompt is
\* closed, and a warning of the backend is appended as an assistant message
SaveApiKeySettles ==
    /\ ~BrowseResumes
    /\ savePending > 0
    /\ savePending' = savePending - 1
    /\ \/ /\ hasApiKey' = TRUE
          /\ showApiKeyPrompt' = FALSE
          /\ apiKeyInput' = "empty"
          /\ \/ UNCHANGED <<apiKeyWarning, messages>>
             \/ /\ RoomFor(1)
                /\ apiKeyWarning' = "warning"
                /\ messages' = Append(messages, Msg("assistant", "Note", 0))
          /\ UNCHANGED apiKeyError
       \/ /\ apiKeyError' \in {"Unknown error occurred",
                               "Failed to save API key"}
          /\ UNCHANGED <<hasApiKey, showApiKeyPrompt, apiKeyInput,
                         apiKeyWarning, messages>>
    /\ UNCHANGED <<inputMessage, chatIsLoading, keyCheck, sendCall>>
    /\ ChatOnly

\* the user edits the message box, line 318: disabled while loading (322)
TypeMessage(t) ==
    /\ ~BrowseResumes
    /\ ~chatIsLoading
    /\ t # inputMessage
    /\ inputMessage' = t
    /\ UNCHANGED <<messages, hasApiKey, showApiKeyPrompt, chatIsLoading,
                   apiKeyInput, apiKeyError, apiKeyWarning, keyCheck, sendCall,
                   savePending>>
    /\ ChatOnly

\* the texts of the assistant message a settled send_message call appends:
\* the response (line 162), the error of a failure result (171), of a throw (191)
SendReplies == {"response", "error result", "error thrown"}

\* sendMessage settles without looking at a thrown error
SendSettlesSwallowsThrow ==
    /\ ~BrowseResumes
    /\ sendCall.pc = "sent"
    /\ \/ \E t \in {"response", "error result"} :
            messages' = Append(messages, Msg("assistant", t, sendCall.id))
       \/ UNCHANGED messages
    /\ chatIsLoading' = FALSE
    /\ sendCall' = [sendCall EXCEPT !.pc = "idle"]
    /\ UNCHANGED <<inputMessage, hasApiKey, showApiKeyPrompt, apiKeyInput,
                   apiKeyError, apiKeyWarning, keyCheck, savePending>>
    /\ ChatOnly

\* Enter in the message box (lines 201-206, 319) or the Send button (324),
\* both disabled while loading: sendMessage, lines 132-156, up to the
\* send_message call; without the bridge the error message is appended at
\* once (177-185) and the finally block runs (197)
SendMessage ==
    /\ ~BrowseResumes
    /\ ~chatIsLoading
    /\ ~IsBlank(inputMessage)
    /\ IF ~hasApiKey
       THEN /\ showApiKeyPrompt' = TRUE
            /\ UNCHANGED <<messages, inputMessage, chatIsLoading, sendCall>>
       ELSE /\ RoomFor(2)
            /\ inputMessage' = ""
            /\ UNCHANGED showApiKeyPrompt
            /\ IF api
               THEN /\ messages' = Append(messages,
                                     Msg("user", inputMessage, sendCall.id + 1))
                    /\ chatIsLoading' = TRUE
                    /\ sendCall' = [pc |-> "sent", id |-> sendCall.id + 1]
               ELSE /\ messages' = messages \o
                         << Msg("user", inputMessage, sendCall.id + 1),
                            Msg("assistant", "backend not available",
                                sendCall.id + 1) >>
                    /\ chatIsLoading' = FALSE
                    /\ sendCall' = [pc |-> "idle", id |-> sendCall.id + 1]
    /\ UNCHANGED <<hasApiKey, apiKeyInput, apiKeyError, apiKeyWarning,
                   keyCheck, savePending>>
    /\ ChatOnly

\* send_message settles, lines 156-176 and 186-198: one assistant message is
\* appended on each path and the finally block resets isLoading
SendSettles ==
    /\ ~BrowseResumes
    /\ sendCall.pc = "sent"
    /\ \E t \in SendReplies :
         messages' = Append(messages, Msg("assistant", t, sendCall.id))
    /\ chatIsLoading' = FALSE
    /\ sendCall' = [sendCall EXCEPT !.pc = "idle"]
    /\ UNCHANGED <<inputMessage, hasApiKey, showApiKeyPrompt, apiKeyInput,
                   apiKeyError, apiKeyWarning, keyCheck, savePending>>
    /\ ChatOnly

----------------------------------------------------------------------------
(* The component *)

\* the state outside the project selector before anything has run
OthersInit ==
    /\ rendered = NotRendered
    /\ clock = 0
    /\ stamps = [q \in StoredPaths |-> 0]
    /\ lastOp = NoOp
    /\ instances = <<>>
    /\ selectedInstance = Null
    /\ detect = IdleDetect
    /\ probes = [c \in Candidates |-> IdleProbe]
    /\ probedOpen = <<>>
    /\ waits = [c \in Callers |-> IdleWait]
    /\ visible = FALSE
    /\ currentStep = 0
    /\ isLoading = FALSE
    /\ wizardError = ""
    /\ answers = {}
    /\ questions = NoQuestions
    /\ synthesized = NoDocuments
    /\ nextCall = IdleNext
    /\ loadPending = 0
    /\ messages = <<>>
    /\ inputMessage = ""
    /\ hasApiKey = FALSE
    /\ showApiKeyPrompt = FALSE
    /\ chatIsLoading = FALSE
    /\ apiKeyInput = "empty"
    /\ apiKeyError = ""
    /\ apiKeyWarning = ""
    /\ keyCheck = IdleKeyCheck
    /\ sendCall = IdleSend
    /\ savePending = 0
    /\ opens = 0

\* lines 771-777: the refs after setup, before onMounted
Init ==
    /\ stage = "setup"
    /\ api = FALSE
    /\ openProjects = <<>>
    /\ recentProjects = <<>>
    /\ selectedProject = Null
    /\ loading = FALSE
    /\ error = ""
    /\ showAllRecent = FALSE
    /\ refreshTimer = 0
    /\ calls = [id \in CallIds |-> IdleCall]
    /\ nextId = 0
    /\ browse = IdleBrowse
    /\ store \in StoreOptions
    /\ pendingAdds = {}
    /\ lastDone = NoResult
    /\ openGen = 0
    /\ recentGen = 0
    /\ issueOrder = <<>>
    /\ overtaken = {}
    /\ activeTimers = {}
    /\ handles = 0
    /\ OthersInit

Next ==
    \/ Mount
    \/ Unmount
    \/ Tick
    \/ ManualRefresh
    \/ \E id \in CallIds : WaitStep(id)
    \/ \E id \in CallIds : Deliver(id)
    \/ \E k \in 1..2 : SelectOpen(k)
    \/ \E k \in 1..MAX_VISIBLE_RECENT : SelectRecent(k)
    \/ BrowseClick
    \/ BrowseWait
    \/ BrowsePicked
    \/ BrowseAddServed
    \/ BrowseAdded
    \/ BrowseSelect
    \/ ApiReady
    \/ \E p \in {PathA} : BackendAdd(p)

Spec == Init /\ [][Next]_vars

----------------------------------------------------------------------------
(* The view of one reconciliation: the inputs of a get_projects_list       *)
(* response are drawn from wider sets, the response is applied by the      *)
(* component and the lists are rendered.                                   *)

ViewPaths == { NoPath, PathAU, PathWinAU, PathB }

ViewInstances == { Instance(s, p) : s \in {"s1", "s2"}, p \in ViewPaths }

\* the prober's answers: up to two instances, each socket at most once
ViewLiveOptions ==
    { <<>> } \cup { <<x>> : x \in ViewInstances }
             \cup { <<x, y>> : x \in { Instance("s1", p) : p \in ViewPaths },
                               y \in { Instance("s2", p) : p \in ViewPaths } }
             \cup { <<Instance("s2", PathB), Instance("s1", PathAU)>> }

\* the store's lists: normalised, without duplicates, most recent first
ViewStoreOptions ==
    { <<>>, <<PathA>>, <<PathA, PathB>>, <<PathB, PathA>>,
      <<PathA, PathB, PathC, PathD, PathE, PathF>>,
      <<PathF, PathE, PathD, PathC, PathB, PathA>> }

\* the component is mounted and its first refresh has called get_projects_list
InitView ==
    /\ stage = "mounted"
    /\ api = TRUE
    /\ openProjects = <<>>
    /\ recentProjects = <<>>
    /\ selectedProject = Null
    /\ loading = TRUE
    /\ error = ""
    /\ showAllRecent = FALSE
    /\ refreshTimer = 1
    /\ nextId = 1
    /\ store \in ViewStoreOptions
    /\ \E L \in ViewLiveOptions :
          calls = [id \in CallIds |->
                     IF id = 1
                     THEN [pc |-> "issued", i |-> 0,
                           res |-> ProjectsListResult(1, L, store)]
                     ELSE IdleCall]
    /\ browse = IdleBrowse
    /\ pendingAdds = {}
    /\ lastDone = NoResult
    /\ openGen = 0
    /\ recentGen = 0
    /\ issueOrder = <<1>>
    /\ overtaken = {}
    /\ activeTimers = {1}
    /\ handles = 1
    /\ OthersInit

\* the "Show more / Show less" button, lines 1116-1123
ToggleShowAll ==
    /\ ~BrowseResumes
    /\ ListsVisible
    /\ HasMoreRecentProjects
    /\ showAllRecent' = ~showAllRecent
    /\ UNCHANGED <<stage, api, openProjects, recentProjects, selectedProject,
                   loading, error, refreshTimer, calls, nextId, browse, store,
                   pendingAdds, lastDone, openGen, recentGen>>
    /\ UNCHANGED others

\* a render whose computed sorts recentProjects.value in place (Array.sort),
\* the open projects first
RenderSortsInPlace ==
    /\ ~BrowseResumes
    /\ ListsVisible
    /\ recentProjects' =
          SelectSeq(recentProjects, LAMBDA r : IsProjectOpen(r))
          \o SelectSeq(recentProjects, LAMBDA r : ~IsProjectOpen(r))
    /\ rendered' = [from   |-> ViewInputs,
                    open   |-> RenderedOpen,
                    recent |-> [i \in DOMAIN VisibleRecentOpenFirst |->
                                  [path |-> VisibleRecentOpenFirst[i].path,
                                   open |-> IsProjectOpen(VisibleRecentOpenFirst[i])]]]
    /\ UNCHANGED <<stage, api, openProjects, selectedProject, loading, error,
                   showAllRecent, refreshTimer, calls, nextId, browse, store,
                   pendingAdds, lastDone, openGen, recentGen>>
    /\ UNCHANGED <<storeVars, detectVars, probeVars, waits>>
    /\ UNCHANGED <<issueVars, timerVars, wizardVars, chatVars>>

\* the template renders the lists, lines 1069-1124: v-for over openProjects
\* and over visibleRecentProjects, isProjectOpen for each recent row
Render ==
    /\ ~BrowseResumes
    /\ ListsVisible
    /\ rendered' = [from   |-> ViewInputs,
                    open   |-> RenderedOpen,
                    recent |-> RenderedRecent]
    /\ UNCHANGED <<selectorVars, storeVars, detectVars, probeVars, waits>>
    /\ UNCHANGED <<issueVars, timerVars, wizardVars, chatVars>>

NextView ==
    \/ Deliver(1)
    \/ ToggleShowAll
    \/ Render

SpecView == InitView /\ [][NextView]_vars

----------------------------------------------------------------------------
(* The Recency Store on its own: the calls of the UI-facing layer in any    *)
(* order, on a store that starts empty                                      *)

InitStore == Init /\ store = <<>>

NextStore ==
    \/ \E p \in StoreCallPaths : StoreAddCall(p)
    \/ \E p \in StoreCallPaths : StoreRemoveCall(p)

SpecStore == InitStore /\ [][NextStore]_vars

----------------------------------------------------------------------------
(* KiCadInstanceSelector.vue on its own *)

NextDetect ==
    \/ DetectMount
    \/ DetectClick
    \/ DetectWait
    \/ DetectDeliver
    \/ \E k \in 1..2 : SelectInstance(k)
    \/ ApiReady

SpecDetect == Init /\ [][NextDetect]_vars

----------------------------------------------------------------------------
(* The probes of one discovery cycle, running concurrently *)

NextProbe ==
    \/ \E c \in Candidates : ProbeStart(c)
    \/ \E c \in Candidates : ProbeTimePasses(c)
    \/ \E c \in Candidates : ProbeRespond(c)
    \/ \E c \in Candidates : ProbeRefused(c)
    \/ \E c \in Candidates : ProbeExpire(c)

\* time passes and timers fire
SpecProbe == Init /\ [][NextProbe]_vars /\ WF_vars(NextProbe)

----------------------------------------------------------------------------
(* waitForAPI called with maxAttempts from 0 to MaxAttempts while the bridge *)
(* may appear                                                                *)

NextWait ==
    \/ \E c \in Callers : \E m \in 0..MaxAttempts : WaitForAPICall(c, m)
    \/ \E c \in Callers : WaitForAPILoop(c)
    \/ \E c \in Callers : WaitForAPIWake(c)
    \/ ApiReady

\* timers fire and continuations run
SpecWait == Init /\ [][NextWait]_vars /\ WF_vars(NextWait)

----------------------------------------------------------------------------
(* startRefreshTimer and stopRefreshTimer called in any order, while the    *)
(* interval callbacks of the active timers run                              *)

\* a call of startRefreshTimer, lines 898-905
StartRefreshTimerCall ==
    /\ handles < MaxTimers
    /\ StartRefreshTimer
    /\ UNCHANGED <<stage, api, openProjects, recentProjects, selectedProject,
                   loading, error, showAllRecent, calls, nextId, browse,
                   store, pendingAdds, lastDone, openGen, recentGen>>
    /\ UNCHANGED <<quiet, issueVars>>

\* a call of stopRefreshTimer, lines 907-912
StopRefreshTimerCall ==
    /\ StopRefreshTimer
    /\ UNCHANGED <<stage, api, openProjects, recentProjects, selectedProject,
                   loading, error, showAllRecent, calls, nextId, browse,
                   store, pendingAdds, lastDone, openGen, recentGen>>
    /\ UNCHANGED <<quiet, issueVars>>

NextTimer ==
    \/ StartRefreshTimerCall
    \/ StopRefreshTimerCall
    \/ Tick
    \/ \E id \in CallIds : WaitStep(id)
    \/ \E id \in CallIds : Deliver(id)
    \/ ApiReady

SpecTimer == Init /\ [][NextTimer]_vars

----------------------------------------------------------------------------
(* The requirements wizard, opened and closed by the user while its backend *)
(* calls are pending                                                        *)

NextWizard ==
    \/ OpenRequirementsWizard
    \/ CloseWizard
    \/ \E q \in InitialIds \cup DetailIds : SetAnswer(q)
    \/ DismissError
    \/ NextStep
    \/ RefineSettles
    \/ FallbackSettles
    \/ SynthesizeSettles
    \/ SaveSettles
    \/ PrevStep
    \/ LoadQuestionsSettles
    \/ ApiReady

SpecWizard == Init /\ [][NextWizard]_vars

----------------------------------------------------------------------------
(* The chat box: messages are sent while the API key is checked and saved *)

NextChat ==
    \/ ChatMount
    \/ ChatWaitWake
    \/ CheckApiKeySettles
    \/ TogglePrompt
    \/ \E k \in KeyKinds : TypeApiKey(k)
    \/ SaveApiKey
    \/ SaveApiKeySettles
    \/ \E t \in InputTexts : TypeMessage(t)
    \/ SendMessage
    \/ SendSettles
    \/ ApiReady

SpecChat == Init /\ [][NextChat]_vars

----------------------------------------------------------------------------
(* Properties *)

Paths(recent) == [i \in DOMAIN recent |-> recent[i].path]

NoCycleCompleted == \A id \in CallIds : calls[id].pc # "done"

\* C1: at most one refreshProjectsList cycle is in flight at any time
C1_AtMostOneCycleInFlight == InFlightCount <= 1

\* C2: requests made while a cycle is running are coalesced: while invocation
\* id is still running, at most one further cycle has been started
C2_RequestsCoalesced ==
    \A id \in CallIds : InFlight(id) => nextId - id <= 1

\* C3: openProjects and recentProjects always hold the lists of one and the
\* same get_projects_list response, or both are the initial empty lists
C3_SnapshotAtomic ==
    /\ openGen = recentGen
    /\ openGen = 0 => openProjects = <<>> /\ recentProjects = <<>>
    /\ \A i \in DOMAIN openProjects : openProjects[i].oid = openGen
    /\ \A i \in DOMAIN recentProjects : recentProjects[i].oid = recentGen

\* C3 witness: a second response has replaced a first one, a cycle is running
C3_Witness ==
    /\ openGen >= 2
    /\ Len(openProjects) > 0
    /\ Len(recentProjects) > 0
    /\ \E id \in CallIds : InFlight(id)

\* C4: the snapshot is the result of the most recently completed successful
\* cycle, and it is the empty state as long as no cycle has completed
C4_SnapshotIsLastCompleted ==
    /\ openProjects = lastDone.open_projects
    /\ recentProjects = lastDone.recent_projects
    /\ NoCycleCompleted => openProjects = <<>> /\ recentProjects = <<>>

\* C4 witness: the snapshot of a completed cycle is readable while a later
\* cycle is running and after another one has failed
C4_Witness ==
    /\ Len(openProjects) > 0
    /\ \E id \in CallIds : calls[id].pc = "issued" /\ id > openGen
    /\ error = "Failed to get projects list"

\* C5: no step of a refresh cycle (start, waitForAPI, completion with its
\* auto-selection) changes the Recency Store or issues add_recent_project, and
\* the store changes only by an add the user's selection or browse has issued
C5_RefreshNeverMutatesStore ==
    [][ /\ (nextId' # nextId \/ calls' # calls)
           => (store' = store /\ pendingAdds' = pendingAdds)
        /\ store' # store
           => \E p \in pendingAdds \cup
                        (IF browse.pc = "adding" THEN {browse.path} ELSE {}) :
                 store' = AddRecentProject(store, p).store
      ]_vars

\* C5 witness: a refresh has auto-selected the only open project; the store is
\* empty and no add_recent_project call is pending
C5_Witness ==
    /\ openGen >= 1
    /\ Len(openProjects) = 1
    /\ selectedProject = openProjects[1]
    /\ store = <<>>
    /\ pendingAdds = {}

\* C6: the open list shown is the list of live instances of the response: the
\* same length, the same entries, in the same order
C6_OpenListIsLiveList ==
    openGen # 0 =>
        /\ Len(RenderedOpen) = Len(lastDone.open_projects)
        /\ \A i \in DOMAIN RenderedOpen : RenderedOpen[i] = lastDone.open_projects[i]

\* C6 witness: two live instances on the same project path, both listed
C6_Witness ==
    /\ openGen # 0
    /\ Len(RenderedOpen) = 2
    /\ RenderedOpen[1].project_path = RenderedOpen[2].project_path
    /\ RenderedOpen[1].project_path # NoPath

Spellings == { PathA, PathAU, PathWinAU, PathWinA, PathB }

\* C8: two spellings of one path (differing in case or separator) get the
\* same is_open flag against the open instances
C8_NormalizationEquivalence ==
    \A i \in DOMAIN recentProjects : \A q \in Spellings :
        Normalize(q) = Normalize(recentProjects[i].path)
        => (IsProjectOpen([path |-> q]) <=> IsProjectOpen(recentProjects[i]))

\* C9: the recent list is in the store's order, and the rows shown are that
\* list, or its first MAX_VISIBLE_RECENT entries when collapsed
C9_RecentKeepsStoreOrder ==
    recentGen # 0 =>
        /\ Paths(recentProjects) = store
        /\ Paths(RenderedRecent) =
              IF showAllRecent THEN store
              ELSE SubSeq(store, 1, Min(MAX_VISIBLE_RECENT, Len(store)))

\* C9 witness: six recent entries, collapsed to five, the second one open and
\* the first one not
C9_Witness ==
    /\ recentGen # 0
    /\ Len(recentProjects) = 6
    /\ Len(RenderedRecent) = 5
    /\ ~RenderedRecent[1].open
    /\ RenderedRecent[2].open

\* C10: an instance without a project is listed in the open list, and a recent
\* entry is flagged open only by an instance that has a project path
C10_NoProjectInstance ==
    openGen # 0 =>
        /\ \A i \in DOMAIN lastDone.open_projects :
              lastDone.open_projects[i].project_path = NoPath
              => lastDone.open_projects[i] \in Range(RenderedOpen)
        /\ \A i \in DOMAIN recentProjects :
              IsProjectOpen(recentProjects[i])
              => \E o \in Range(openProjects) :
                    /\ o.project_path # NoPath
                    /\ ToLowerCase(o.project_path)
                         = ToLowerCase(recentProjects[i].path)

\* C10 witness: an instance without a project is listed beside recent entries
C10_Witness ==
    /\ openGen # 0
    /\ \E o \in Range(RenderedOpen) : o.project_path = NoPath
    /\ Len(recentProjects) > 0
    /\ \A i \in DOMAIN RenderedRecent : ~RenderedRecent[i].open

C12_StoreUnique ==
    /\ \A i, j \in DOMAIN store :
          i # j => Normalize(store[i]) # Normalize(store[j])
    /\ \A i, j \in DOMAIN store : i < j => stamps[store[i]] > stamps[store[j]]
    /\ (lastOp.op = "add" /\ lastOp.success) =>
          /\ store[1] = Normalize(lastOp.path)
          /\ stamps[store[1]] = clock
          /\ Range(store) = Range(lastOp.before) \cup {Normalize(lastOp.path)}
          /\ Len(store) = Cardinality(Range(store))
    /\ (lastOp.op = "remove" /\ lastOp.success) =>
          /\ Normalize(lastOp.path) \notin Range(store)
          /\ Range(store) = Range(lastOp.before) \ {Normalize(lastOp.path)}

\* C12 witness: "/A" is added a second time while it is stored behind another
\* path: it is at the head now and the store still has two entries
C12_Witness ==
    /\ lastOp.op = "add"
    /\ lastOp.path = PathAU
    /\ Len(lastOp.before) = 2
    /\ lastOp.before[2] = PathA
    /\ store = <<PathA, lastOp.before[1]>>

\* C13: when the last detection succeeded and found no live instance, the
\* error state is empty
C13_ZeroInstancesNoError ==
    (detect.pc = "idle" /\ detect.last = "ok" /\ instances = <<>>)
    => error = ""

\* the messages a failed refresh cycle leaves in error
RefreshErrors ==
    { "Failed to get projects list", "Error getting projects",
      "pywebview API not available" }

\* C14: a failed cycle does not stop the scheduler: while the component is
\* mounted the interval timer is active, also with the error of a failed
\* cycle on display, and the next tick starts a new cycle
C14_FailureKeepsTimer ==
    stage = "mounted" =>
        /\ refreshTimer # 0
        /\ (error \in RefreshErrors /\ ~BrowseResumes /\ NoCycleWaiting /\ CanStart)
           => ENABLED Tick

\* C14 witness: a cycle has thrown, no cycle is running, the timer is active
C14_Witness ==
    /\ stage = "mounted"
    /\ error = "Error getting projects"
    /\ InFlightCount = 0
    /\ \E id \in CallIds : calls[id].pc = "done"
    /\ refreshTimer # 0
    /\ ENABLED Tick

\* C15: Stopped is terminal: once the component is unmounted no further
\* invocation of refreshProjectsList starts
C15_StoppedIsTerminal ==
    [][ stage = "unmounted" => nextId' = nextId ]_vars

\* C16: a cycle that is in flight when the component is unmounted completes
\* without publishing a snapshot and without changing loading, error or the
\* selection
C16_StopCancelsInFlight ==
    [][ ( /\ stage = "unmounted"
          /\ \E id \in CallIds : InFlight(id) /\ calls'[id].pc = "done" )
        => UNCHANGED <<openProjects, recentProjects, loading, error,
                       selectedProject>>
      ]_vars

\* C17: add_recent_project given a malformed path answers with a failure
\* result and does not raise, the store is left as it was, and the refresh
\* loop keeps running: the timer stays active and the next tick is enabled
C17_MalformedAddFails ==
    /\ (browse.pc \in {"added", "addthrew"} /\ Malformed(browse.path))
       => /\ browse.pc = "added"
          /\ ~browse.ok
          /\ stage = "mounted" => refreshTimer # 0
          /\ (refreshTimer # 0 /\ NoCycleWaiting /\ CanStart) => ENABLED Tick
    /\ \A p \in StoreCallPaths :
          Malformed(p) => /\ ~AddRecentProject(store, p).success
                          /\ AddRecentProject(store, p).store = store
                          /\ ~RemoveRecentProject(store, p).success
                          /\ RemoveRecentProject(store, p).store = store

\* C17 witness: the picker returned "a", the store has refused it and still
\* holds its entry; the component is mounted and its timer runs
C17_Witness ==
    /\ browse.pc = "added"
    /\ browse.path = PathBad
    /\ ~browse.ok
    /\ store = <<PathA>>
    /\ stage = "mounted"
    /\ refreshTimer # 0

\* C18: every probe that is started ends, with exactly one of the outcomes
\* Alive, Unreachable, TimedOut; a pending probe has not outlived its
\* timeout; a server that never answers is classified TimedOut; and the open
\* list holds exactly the candidates classified Alive, each once
C18_ProbeTerminates ==
    /\ [](\A c \in Candidates :
            /\ probes[c].t <= ProbeTimeout
            /\ probes[c].pc = "done"
               <=> probes[c].outcome \in {"Alive", "Unreachable", "TimedOut"}
            /\ (probes[c].pc = "done" /\ probes[c].nature = "silent")
               => probes[c].outcome = "TimedOut"
            /\ (probes[c].pc = "done" /\ probes[c].t >= ProbeTimeout)
               => probes[c].outcome = "TimedOut"
            /\ probes[c].outcome = "Alive"
               <=> Cardinality({i \in DOMAIN probedOpen : probedOpen[i] = c}) = 1
            /\ probes[c].outcome # "Alive" => c \notin Range(probedOpen))
    /\ \A c \in Candidates :
          (probes[c].pc = "pending") ~> (probes[c].pc = "done")
    /\ [][ \A c \in Candidates :
             probes[c].pc = "done" => probes'[c] = probes[c] ]_vars

\* C18 witness: the probe of a silent server has timed out after a live
\* server was classified; only the live one is in the open list
C18_Witness ==
    /\ probes["c1"].pc = "done"
    /\ probes["c1"].nature = "silent"
    /\ probes["c1"].outcome = "TimedOut"
    /\ probes["c2"].outcome = "Alive"
    /\ probedOpen = <<"c2">>

C20_WaitForAPIBounded ==
    /\ [](\A c \in Callers :
            /\ waits[c].checks <= waits[c].max
            /\ waits[c].i <= waits[c].max
            /\ waits[c].pc = "done" =>
                  /\ waits[c].ret = "true" <=> waits[c].seen
                  /\ waits[c].ret = "false" <=> ~waits[c].seen
                  /\ waits[c].ret = "false" => waits[c].checks = waits[c].max
                  /\ waits[c].ret = "true" => waits[c].checks >= 1
            /\ waits[c].pc # "done" => waits[c].ret = "none" /\ ~waits[c].seen)
    /\ \A c \in Callers :
          (waits[c].pc \in {"loop", "sleep"}) ~> (waits[c].pc = "done")

\* C20 witness: one call has returned false after all its checks failed and
\* the other has returned true on its second check
C20_Witness ==
    /\ waits["refresh"].pc = "done"
    /\ waits["refresh"].ret = "false"
    /\ waits["refresh"].checks = MaxAttempts
    /\ waits["browse"].pc = "done"
    /\ waits["browse"].ret = "true"
    /\ waits["browse"].checks = 2

\* invocation id ends in this step
Completes(id) == InFlight(id) /\ calls'[id].pc = "done"

\* C21: a refresh that ends without applying a result (no bridge, a failure
\* result, a rejection) leaves openProjects, recentProjects and
\* selectedProject as they were and sets error to its message
C21_FailedRefreshKeepsSnapshot ==
    [][ \A id \in CallIds :
          (Completes(id) /\ openGen' # id)
          => /\ UNCHANGED <<openProjects, recentProjects, selectedProject>>
             /\ error' \in RefreshErrors
      ]_vars

\* C21 witness: after a rejection the auto-selected instance of the earlier
\* snapshot is still listed and selected
C21_Witness ==
    /\ error = "Error getting projects"
    /\ Len(openProjects) = 1
    /\ selectedProject = openProjects[1]
    /\ InFlightCount = 0

\* C23: loading is true in every state in which an invocation of
\* refreshProjectsList is in flight
C23_LoadingWhileInFlight == InFlightCount >= 1 => loading

\* C24: the step in which an invocation ends (no bridge, success, failure
\* result, rejection) sets loading to false
C24_LoadingReset ==
    [][ \A id \in CallIds : Completes(id) => loading' = FALSE ]_vars

\* C24 witness: the only invocation so far gave up waiting for the bridge;
\* loading is false
C24_Witness ==
    /\ nextId = 1
    /\ calls[1].pc = "done"
    /\ error = "pywebview API not available"
    /\ ~loading

\* the selected project has a counterpart in openProjects: the instance with
\* its socket_path, or an instance on the recent entry's path
SelectedCorresponds ==
    IF "socket_path" \in DOMAIN selectedProject
    THEN \E o \in Range(openProjects) :
            o.socket_path = selectedProject.socket_path
    ELSE IsProjectOpen(selectedProject)

\* C25: selectedProjectInfo.isOpen is true only while the selected project
\* has a counterpart in the current openProjects
C25_ConnectedOnlyWhileOpen == SelectedIsOpen => SelectedCorresponds

\* the selected project is in the lists of the next state by its key
StillPresent ==
    IF "socket_path" \in DOMAIN selectedProject
    THEN \E o \in Range(openProjects') :
            o.socket_path = selectedProject.socket_path
    ELSE \E r \in Range(recentProjects') : r.path = selectedProject.path

\* C26: when a snapshot is applied and the selected project is still in it,
\* the selected value is afterwards an element of openProjects or
\* recentProjects
C26_SelectionStable ==
    [][ (openGen' # openGen /\ selectedProject # Null /\ StillPresent)
        => selectedProject' \in Range(openProjects') \cup Range(recentProjects')
      ]_vars

\* C22: results are applied in the order of their get_projects_list calls:
\* the result of a call is never applied after the result of a later call
C22_AppliedInRequestOrder ==
    [][ \A id \in CallIds :
          (Completes(id) /\ openGen' = id) => id \notin overtaken ]_vars

\* C27: in browseForProject the add_recent_project call has completed before
\* the refresh that follows it issues get_projects_list: when the add
\* succeeded, the list that call reads already holds the added path
C27_AddBeforeRefresh ==
    (/\ browse.pc = "refreshing"
     /\ browse.ok
     /\ calls[browse.call].pc = "issued")
    => Normalize(browse.path)
         \in Range(Paths(calls[browse.call].res.recent_projects))

C27_Witness ==
    /\ browse.pc = "refreshing"
    /\ browse.ok
    /\ browse.path = PathAU
    /\ calls[browse.call].pc = "issued"
    /\ store = <<Normalize(PathAU)>>

\* C28: when browseForProject completes for a path that was picked and added,
\* and the lists shown are those of its refresh, the selected project is the
\* recent-list entry of that path, whatever string the picker returned
C28_BrowseSelectsAdded ==
    [][ (/\ BrowseResumes
         /\ browse.ok
         /\ recentGen = browse.call
         /\ browse'.pc = "idle")
        => /\ selectedProject' \in Range(recentProjects)
           /\ selectedProject'.path = Normalize(browse.path) ]_vars

\* C29: at most one interval timer is active at any time, it is the one
\* whose handle refreshTimer holds, and none is active when refreshTimer is
\* null (after stopRefreshTimer), whatever the sequence of start and stop calls
C29_AtMostOneTimer ==
    /\ Cardinality(activeTimers) <= 1
    /\ refreshTimer = 0 => activeTimers = {}
    /\ refreshTimer # 0 => activeTimers = {refreshTimer}

\* a start that followed two earlier starts, with or without stops between
C29_Witness ==
    /\ handles = MaxTimers
    /\ refreshTimer = MaxTimers
    /\ activeTimers = {MaxTimers}

\* C30: whenever the wizard becomes visible it is at step 0 with no answers
\* and no synthesized documents; while it is shown it leaves step 0 only by a
\* nextStep started in this opening, and refined questions or synthesized
\* documents stored while it is shown come from a call of this opening
C30_ReopenedWizardFresh ==
    [][ /\ (~visible /\ visible')
           => (currentStep' = 0 /\ answers' = {} /\ synthesized' = NoDocuments)
        /\ (visible /\ visible' /\ currentStep = 0 /\ currentStep' # 0)
           => (nextCall.pc = "idle" \/ nextCall.epoch = opens)
        /\ (visible' /\ questions' # questions /\ questions'.from = "refined")
           => questions'.epoch = opens'
        /\ (visible' /\ synthesized' # synthesized /\ synthesized'.text # "")
           => synthesized'.epoch = opens' ]_vars

\* C32: currentStep of the requirements wizard is always 0, 1 or 2, whatever
\* the sequence of nextStep, prevStep, openings and closings: prevStep does
\* not go below 0 and nextStep at step 2 saves without advancing
C32_StepInRange == currentStep \in {0, 1, 2}

\* a nextStep at step 2 has run: its save_requirements call failed
C32_Witness ==
    /\ currentStep = 2
    /\ wizardError = "Failed to save requirements"
    /\ nextCall = IdleNext
    /\ ~isLoading

\* the positions in messages of the messages of sender s that belong to the
\* sendMessage call n
MessagesOf(s, n) ==
    {k \in DOMAIN messages : messages[k].sender = s /\ messages[k].call = n}

\* C31: every sendMessage call that passed the blank-input and API-key tests
\* has appended exactly one user message; once its backend call has settled
\* it has appended exactly one assistant message, a response or an error
\* text, after the user message, and before that none; and isLoading is
\* true exactly while the call is pending
C31_OneReplyPerSend ==
    /\ chatIsLoading = (sendCall.pc = "sent")
    /\ \A n \in 1..sendCall.id :
         LET pending == sendCall.pc = "sent" /\ sendCall.id = n
         IN  /\ Cardinality(MessagesOf("user", n)) = 1
             /\ Cardinality(MessagesOf("assistant", n))
                  = IF pending THEN 0 ELSE 1
             /\ \A u \in MessagesOf("user", n) :
                  \A a \in MessagesOf("assistant", n) :
                    /\ u < a
                    /\ messages[u].text = "hi"
                    /\ messages[a].text
                         \in SendReplies \cup {"backend not available"}

\* a call whose backend call threw, with a note of saveApiKey between its
\* user message and its error message
C31_Witness ==
    /\ sendCall = [pc |-> "idle", id |-> 1]
    /\ ~chatIsLoading
    /\ messages = << Msg("user", "hi", 1), Msg("assistant", "Note", 0),
                     Msg("assistant", "error thrown", 1) >>

====
